---- MODULE Spec2Model ----
(***************************************************************************)
(* Exam-attempt state machine of the online-exam backend: the attempt      *)
(* store, the hard-end-time computation, the submission paths (manual      *)
(* submit handler, time-window helper, cron sweep, submission service),    *)
(* and the score pipeline (calculateExamScore, score queue and worker).    *)
(***************************************************************************)
EXTENDS Integers, Sequences, FiniteSets, TLC

\* ------------------------------------------------------------------ bounds
NProcs == 2          \* concurrent request handlers / cron callbacks / worker slots
NUsers == 2          \* students
MaxTime == 4         \* number of clock advances observed
MaxJobs == 2         \* jobs the score queue holds in the model
MaxIn == 4           \* range of the inputs of the pure-function harness

Procs == 1..NProcs
Users == 1..NUsers
AttemptIds == 1..(NUsers + 1)

\* ------------------------------------------------------------ basic values
\* A nullable column holds <<>> (null) or <<v>>.
Null == <<>>
Some(v) == <<v>>

Min(a, b) == IF a <= b THEN a ELSE b
Max(a, b) == IF a >= b THEN a ELSE b

\* Clock readings (new Date()) in milliseconds: the instants at which the
\* model samples the clock: 0, 59500, 60000, 60500, 61000, ...
Instant(i) == IF i = 0 THEN 0 ELSE 59000 + 500 * i

\* The one exam of the model: window [0, 60700] ms, one minute per attempt.
ExamId == 1
Exam == [id |-> ExamId, state |-> "PUBLISHED", startTime |-> 0,
         endTime |-> 60700, durationMinutes |-> 1]

\* the duration-based end alone, without the cap of the exam's end time
getDurationEnd(exam, attempt) ==
    attempt.startedAt + exam.durationMinutes * 60 * 1000

\* utils/examTime.util.js
getHardEndTime(exam, attempt) ==
    LET durationEnd == attempt.startedAt + exam.durationMinutes * 60 * 1000
    IN  Min(exam.endTime, durationEnd)

VARIABLES
    now,        \* index of the current clock reading
    attempts,   \* exam_attempts: attempt id -> row
    answers,    \* student_answers: attempt id -> row of the exam's question
    lock,       \* row lock of exam_attempts: attempt id -> holder (0 = free)
    proc,       \* the asynchronous activities and their positions
    jobs,       \* score-calculation queue: sequence of jobs
    writes,     \* history: number of status / score writes per attempt
    reply,      \* what the step just taken returned to its caller
    fnArgs,     \* arguments of the pure-function harness
    fnResult    \* result of the pure-function harness

vars == <<now, attempts, answers, lock, proc, jobs, writes, reply, fnArgs, fnResult>>

Idle == [op |-> "none", pc |-> "idle", user |-> 0, att |-> 0, todo |-> {},
         snap |-> Null, job |-> 0, since |-> 0]

\* a step that returns nothing to a caller
NoReply == [att |-> 0, res |-> ""]

Clock == Instant(now)

\* ExamAttempt.create defaults (examAttempt.model.js)
NewAttempt(examId, userId, t) ==
    [examId |-> examId, userId |-> userId, startedAt |-> t,
     submittedAt |-> Null, status |-> "IN_PROGRESS", score |-> Null]

\* ExamAttempt.findOne({ where: { examId, userId } })
AttemptsOf(examId, userId) ==
    {a \in DOMAIN attempts :
        attempts[a].examId = examId /\ attempts[a].userId = userId}

\* ExamAttempt.findOne({ where: { examId, userId, status: "IN_PROGRESS" } })
ActiveAttemptsOf(examId, userId) ==
    {a \in AttemptsOf(examId, userId) : attempts[a].status = "IN_PROGRESS"}

Terminal(a) == attempts[a].status \in {"SUBMITTED", "AUTO_SUBMITTED"}

\* reads and writes made without the row lock
NeverLocked(a) == TRUE

\* a statement that needs the row of attempt a (SELECT ... FOR UPDATE, UPDATE)
\* waits while another transaction holds the row lock
LockFree(a) == lock[a] = 0

\* a save that sets the status and forgets the submission time
WriteStatusOnly(a, s) ==
    /\ attempts' = [attempts EXCEPT ![a].status = s]
    /\ writes' = [writes EXCEPT ![a].status = @ + 1]

\* attempt.status = s; attempt.submittedAt = new Date(); attempt.save()
WriteStatus(a, s) ==
    /\ attempts' = [attempts EXCEPT ![a].status = s, ![a].submittedAt = Some(Clock)]
    /\ writes' = [writes EXCEPT ![a].status = @ + 1]

\* the activity sends response r about attempt a (0: none) and ends
Finish(p, a, r) ==
    /\ proc' = [proc EXCEPT ![p] = Idle]
    /\ reply' = [att |-> a, res |-> r]

\* the activity continues at f
Goto(p, f) ==
    /\ proc' = [proc EXCEPT ![p] = f]
    /\ reply' = NoReply

\* the activity sends response r about attempt a and continues at f
GotoReply(p, f, a, r) ==
    /\ proc' = [proc EXCEPT ![p] = f]
    /\ reply' = [att |-> a, res |-> r]

\* ------------------------------------------------------------ exam paper
\* The exam's questions (ExamQuestion joined with Question, Option,
\* NumericalAnswer): a SINGLE_CORRECT question (option 1 correct), a
\* MULTIPLE_CORRECT question (options 1 and 2 correct) and a NUMERICAL question
\* (value 10, tolerance 2); 4 marks each, 1 negative mark.
ExamQuestions ==
    <<[marksForEachQuestion |-> 4,
       question |-> [id |-> 1, questionType |-> "SINGLE_CORRECT", marks |-> 4,
                     negativeMarks |-> 1,
                     options |-> <<[id |-> 1, isCorrect |-> TRUE],
                                   [id |-> 2, isCorrect |-> FALSE]>>,
                     numericalAnswer |-> Null]],
      [marksForEachQuestion |-> 4,
       question |-> [id |-> 2, questionType |-> "MULTIPLE_CORRECT", marks |-> 4,
                     negativeMarks |-> 1,
                     options |-> <<[id |-> 1, isCorrect |-> TRUE],
                                   [id |-> 2, isCorrect |-> TRUE],
                                   [id |-> 3, isCorrect |-> FALSE]>>,
                     numericalAnswer |-> Null]],
      [marksForEachQuestion |-> 4,
       question |-> [id |-> 3, questionType |-> "NUMERICAL", marks |-> 4,
                     negativeMarks |-> 1,
                     options |-> <<>>,
                     numericalAnswer |-> Some([value |-> 10, tolerance |-> 2])]]>>

QuestionById(qid) ==
    LET i == CHOOSE k \in 1..Len(ExamQuestions) : ExamQuestions[k].question.id = qid
    IN  ExamQuestions[i].question

QuestionIds == {ExamQuestions[i].question.id : i \in 1..Len(ExamQuestions)}

\* request bodies of saveAnswer: selectedOptionIds (absent, or an array) and
\* numericalAnswer (absent, or a number)
Selections == {Null, Some(<<1>>), Some(<<2>>), Some(<<1, 2>>)}
Numbers == {Null, Some(5)}

\* a student_answers row
AnswerRow(sel, num, marks) ==
    [selectedOptionIds |-> sel, numericalAnswer |-> num, selectedOptionId |-> Null,
     marksObtained |-> marks]

\* selectedOptionIds || []
OrEmpty(sel) == IF sel = Null THEN <<>> ELSE sel[1]

SeqToSet(q) == {q[i] : i \in 1..Len(q)}

\* question.options.find(o => o.isCorrect): <<>> or <<option>>
FindCorrect(options) ==
    LET idx == {i \in 1..Len(options) : options[i].isCorrect}
    IN  IF idx = {} THEN Null
        ELSE Some(options[CHOOSE i \in idx : \A j \in idx : i <= j])

Abs(x) == IF x < 0 THEN -x ELSE x

\* calculateExamScore(examId, userId), step 6: the marks of one exam question;
\* ans is <<>> (no answer row) or <<row>>
MarksForQuestion(eq, ans) ==
    LET question == eq.question
        marks == eq.marksForEachQuestion
        raw ==
          IF ans = Null THEN 0
          ELSE IF question.questionType = "SINGLE_CORRECT" THEN
              LET selectedIds == OrEmpty(ans[1].selectedOptionIds)
                  correctOption == FindCorrect(question.options)
              IN  IF Len(selectedIds) = 0 THEN 0
                  ELSE IF correctOption # Null /\ selectedIds[1] = correctOption[1].id
                       THEN marks ELSE -question.negativeMarks
          ELSE IF question.questionType = "MULTIPLE_CORRECT" THEN
              LET selectedIds == OrEmpty(ans[1].selectedOptionIds)
                  correctIds == {question.options[i].id :
                                   i \in {k \in 1..Len(question.options) :
                                            question.options[k].isCorrect}}
              IN  IF Len(selectedIds) = 0 THEN 0
                  ELSE IF Len(selectedIds) = Cardinality(correctIds)
                          /\ \A i \in 1..Len(selectedIds) : selectedIds[i] \in correctIds
                       THEN marks ELSE -question.negativeMarks
          ELSE IF question.questionType = "NUMERICAL" THEN
              LET num == question.numericalAnswer
              IN  IF num # Null /\ ans[1].numericalAnswer # Null
                  THEN IF Abs(ans[1].numericalAnswer[1] - num[1].value) <= num[1].tolerance
                       THEN marks ELSE -question.negativeMarks
                  ELSE 0
          ELSE 0
    IN  Max(0, raw)

\* the answer of attempt rows for question qid: <<>> or <<row>>
AnswerFor(rows, qid) == IF qid \in DOMAIN rows THEN Some(rows[qid]) ELSE Null

RECURSIVE SumMarks(_, _, _)
SumMarks(eqs, rows, i) ==
    IF i > Len(eqs) THEN 0
    ELSE MarksForQuestion(eqs[i], AnswerFor(rows, eqs[i].question.id))
         + SumMarks(eqs, rows, i + 1)

\* a total that gives every question of the paper its full marks
TotalOfPaper(eqs, rows) ==
    IF Len(eqs) = 0 THEN 0
    ELSE eqs[1].marksForEachQuestion + Len(Tail(eqs)) * eqs[1].marksForEachQuestion

\* calculateExamScore(examId, userId), steps 6 and 7: totalScore
TotalScore(eqs, rows) == SumMarks(eqs, rows, 1)

\* ... and the marksObtained written to the answer rows that were read
MarkedRows(eqs, rows, current) ==
    [qid \in DOMAIN current |->
        IF qid \in DOMAIN rows /\ \E i \in 1..Len(eqs) : eqs[i].question.id = qid
        THEN [current[qid] EXCEPT !.marksObtained =
                Some(MarksForQuestion(
                       eqs[CHOOSE i \in 1..Len(eqs) : eqs[i].question.id = qid],
                       Some(rows[qid])))]
        ELSE current[qid]]

\* calculateExamScore(answers) of the score worker: the marks of one answer row
WorkerMarks(question, ans) ==
    IF question.questionType = "SINGLE_CORRECT" THEN
        LET correctOption == FindCorrect(question.options)
        IN  IF correctOption # Null /\ ans.selectedOptionId = Some(correctOption[1].id)
            THEN question.marks ELSE -question.negativeMarks
    ELSE IF question.questionType = "MULTIPLE_CORRECT" THEN
        LET correctSet == {question.options[i].id :
                             i \in {k \in 1..Len(question.options) :
                                      question.options[k].isCorrect}}
            selectedSet == SeqToSet(OrEmpty(ans.selectedOptionIds))
        IN  IF Cardinality(selectedSet) = Cardinality(correctSet)
               /\ selectedSet \subseteq correctSet
            THEN question.marks ELSE 0
    ELSE IF question.questionType = "NUMERICAL"
            /\ question.numericalAnswer # Null /\ ans.numericalAnswer # Null
    THEN IF Abs(ans.numericalAnswer[1] - question.numericalAnswer[1].value)
              <= question.numericalAnswer[1].tolerance
         THEN question.marks ELSE -question.negativeMarks
    ELSE 0

RECURSIVE WorkerTotal(_, _)
WorkerTotal(rows, todo) ==
    IF todo = {} THEN 0
    ELSE LET qid == CHOOSE q \in todo : TRUE
         IN  WorkerMarks(QuestionById(qid), rows[qid]) + WorkerTotal(rows, todo \ {qid})

WorkerMarkedRows(rows, current) ==
    [qid \in DOMAIN current |->
        IF qid \in DOMAIN rows
        THEN [current[qid] EXCEPT !.marksObtained =
                Some(WorkerMarks(QuestionById(qid), rows[qid]))]
        ELSE current[qid]]

\* the database when the exam is under way: student 1 started at the first
\* clock reading and has answered, every other student started at the second;
\* the clock shows the third reading, the deadline of student 1
Init ==
    /\ now = 2
    /\ attempts = [u \in Users |->
                     NewAttempt(ExamId, u, IF u = 1 THEN Instant(0) ELSE Instant(1))]
    /\ answers = [u \in Users |->
                     IF u = 1 THEN (1 :> AnswerRow(Some(<<1>>), Null, Null)) ELSE <<>>]
    /\ lock = [u \in Users |-> 0]
    /\ proc = [p \in Procs |-> Idle]
    /\ jobs = <<>>
    /\ writes = [u \in Users |-> [status |-> 0, score |-> 0]]
    /\ reply = NoReply
    /\ fnArgs = <<>>
    /\ fnResult = <<>>

\* the database before any student has started
InitStart ==
    /\ now = 0
    /\ attempts = <<>>
    /\ answers = <<>>
    /\ lock = <<>>
    /\ proc = [p \in Procs |-> Idle]
    /\ jobs = <<>>
    /\ writes = <<>>
    /\ reply = NoReply
    /\ fnArgs = <<>>
    /\ fnResult = <<>>

Tick ==
    /\ now < MaxTime
    /\ now' = now + 1
    /\ reply' = NoReply
    /\ UNCHANGED <<attempts, answers, lock, proc, jobs, writes, fnArgs, fnResult>>

\* ------------------------------------------------------------- startExam
\* startExam, up to the existence check
StartExamCheck(p) ==
    /\ proc[p].pc = "idle"
    /\ \E u \in Users :
        IF Exam.state # "PUBLISHED"
        THEN Finish(p, 0, "400 Exam not available")
        ELSE IF Clock < Exam.startTime \/ Clock > Exam.endTime
        THEN Finish(p, 0, "400 Exam not active")
        ELSE IF AttemptsOf(ExamId, u) # {}
        THEN Finish(p, 0, "400 already attempted")
        ELSE Goto(p, [Idle EXCEPT !.op = "startExam", !.pc = "start_create",
                                  !.user = u])
    /\ UNCHANGED <<now, attempts, answers, lock, jobs, writes, fnArgs, fnResult>>

\* the table without the unique index
NoUniqueIndex(examId, userId) == FALSE

\* the unique index on (exam_id, user_id)
UniqueViolation(examId, userId) == AttemptsOf(examId, userId) # {}

\* startExam, ExamAttempt.create inside the transaction
StartExamCreate(p) ==
    /\ proc[p].pc = "start_create"
    /\ LET u == proc[p].user
       IN  IF UniqueViolation(ExamId, u)
           THEN /\ Finish(p, 0, "400 Exam already started")
                /\ UNCHANGED <<attempts, answers, lock, writes>>
           ELSE LET id == CHOOSE i \in AttemptIds : i \notin DOMAIN attempts
                IN  /\ attempts' = attempts @@ (id :> NewAttempt(ExamId, u, Clock))
                    /\ answers' = answers @@ (id :> <<>>)
                    /\ lock' = lock @@ (id :> 0)
                    /\ writes' = writes @@ (id :> [status |-> 0, score |-> 0])
                    /\ Finish(p, id, "201 Exam started")
    /\ UNCHANGED <<now, jobs, fnArgs, fnResult>>

\* ------------------------------------------------- calculateExamScore
\* where the activity f of p continues when calculateExamScore returns r
AfterCalc(p, f, a, r) ==
    IF f.op = "sweep"
    THEN IF f.todo = {}
         THEN Finish(p, 0, "")
         ELSE Goto(p, [f EXCEPT !.pc = "sweep_save", !.user = 0, !.att = 0,
                                !.snap = Null])
    ELSE IF f.op = "recalc" THEN Finish(p, a, r)
    ELSE IF f.op = "auto" THEN Finish(p, a, "403 Time over")
    ELSE Finish(p, 0, "")

\* scoring without the idempotency check
NeverCalculated(a) == FALSE

\* the idempotency check of calculateExamScore and of the worker
AlreadyCalculated(a) == attempts[a].score # Null

\* scoring without the submitted check
NeverInProgress(a) == FALSE

\* the submitted check of calculateExamScore
NotSubmitted(a) == attempts[a].status = "IN_PROGRESS"

\* calculateExamScore(examId, userId), steps 1 to 5, called by activity f of p:
\* lock the attempt row, validate, read the questions and the answers
CalcBegin(p, f) ==
    /\ LET found == AttemptsOf(ExamId, f.user)
       IN  IF found = {}
           THEN /\ AfterCalc(p, f, 0, "404 NOT_FOUND")
                /\ UNCHANGED lock
           ELSE \E a \in found :
                /\ LockFree(a)
                /\ IF NotSubmitted(a)
                   THEN AfterCalc(p, f, a, "400 NOT_SUBMITTED") /\ UNCHANGED lock
                   ELSE IF AlreadyCalculated(a)
                   THEN AfterCalc(p, f, a, "200 alreadyCalculated") /\ UNCHANGED lock
                   ELSE IF Len(ExamQuestions) = 0
                   THEN AfterCalc(p, f, a, "404 NO_QUESTIONS") /\ UNCHANGED lock
                   ELSE /\ lock' = [lock EXCEPT ![a] = p]
                        /\ Goto(p, [f EXCEPT !.pc = "calc_save", !.att = a,
                                             !.snap = Some(answers[a])])
    /\ UNCHANGED <<now, attempts, answers, jobs, writes, fnArgs, fnResult>>

\* calculateExamScore called after a submission (handlers, cron sweep)
CalcLock(p) ==
    /\ proc[p].pc = "calc"
    /\ CalcBegin(p, proc[p])

\* dummyResultCalculator: GET /:examId/calculate
Recalc(p) ==
    /\ proc[p].pc = "idle"
    /\ \E u \in Users : CalcBegin(p, [Idle EXCEPT !.op = "recalc", !.user = u])

\* calculateExamScore(examId, userId), steps 6 and 7 and the commit
CalcSave(p) ==
    /\ proc[p].pc = "calc_save"
    /\ LET a == proc[p].att
           rows == proc[p].snap[1]
       IN  /\ answers' = [answers EXCEPT ![a] = MarkedRows(ExamQuestions, rows, @)]
           /\ attempts' = [attempts EXCEPT ![a].score =
                             Some(TotalScore(ExamQuestions, rows))]
           /\ writes' = [writes EXCEPT ![a].score = @ + 1]
           /\ lock' = [lock EXCEPT ![a] = 0]
           /\ AfterCalc(p, proc[p], a, "200 calculated")
    /\ UNCHANGED <<now, jobs, fnArgs, fnResult>>

\* calculateExamScore(examId, userId): an error inside the try block; the
\* transaction is rolled back and SERVER_ERROR is returned
CalcFail(p) ==
    /\ proc[p].pc = "calc_save"
    /\ lock' = [lock EXCEPT ![proc[p].att] = 0]
    /\ AfterCalc(p, proc[p], proc[p].att, "500 SERVER_ERROR")
    /\ UNCHANGED <<now, attempts, answers, jobs, writes, fnArgs, fnResult>>

\* ------------------------------------------------ time-window auto-submit
\* a time-window check that records the late request as a manual submission
AutoSubmitSaveAsManual(p) ==
    /\ proc[p].pc = "auto_save"
    /\ LET a == proc[p].att
       IN  /\ LockFree(a)
           /\ WriteStatus(a, "SUBMITTED")
           /\ Goto(p, [proc[p] EXCEPT !.pc = "calc", !.user = attempts[a].userId])
    /\ UNCHANGED <<now, answers, lock, jobs, fnArgs, fnResult>>

\* autoSubmitAttempt(attempt): the unlocked save of the instance read earlier
AutoSubmitSave(p) ==
    /\ proc[p].pc = "auto_save"
    /\ LET a == proc[p].att
       IN  /\ LockFree(a)
           /\ WriteStatus(a, "AUTO_SUBMITTED")
           /\ Goto(p, [proc[p] EXCEPT !.pc = "calc", !.user = attempts[a].userId])
    /\ UNCHANGED <<now, answers, lock, jobs, fnArgs, fnResult>>

\* getExamForAttempt: the remaining time in whole seconds
RemainingSeconds(hardEnd, t) == Max(0, (hardEnd - t) \div 1000)

\* getExamForAttempt
GetExamForAttempt(p) ==
    /\ proc[p].pc = "idle"
    /\ \E u \in Users :
        LET found == ActiveAttemptsOf(ExamId, u)
        IN  IF found = {} THEN Finish(p, 0, "403 No active attempt")
            ELSE \E a \in found :
                 IF RemainingSeconds(getHardEndTime(Exam, attempts[a]), Clock) = 0
                 THEN Goto(p, [Idle EXCEPT !.op = "auto", !.pc = "auto_save",
                                           !.att = a])
                 ELSE Finish(p, a, "200 Exam loaded")
    /\ UNCHANGED <<now, attempts, answers, lock, jobs, writes, fnArgs, fnResult>>

\* ------------------------------------------------------------- saveAnswer
\* saveAnswer: the checks of the request body against the question's type
ValidateAnswer(question, sel, num) ==
    IF question.questionType = "SINGLE_CORRECT" /\ sel # Null /\ Len(sel[1]) > 1
    THEN "400 Only one option"
    ELSE IF question.questionType = "NUMERICAL" /\ num = Null
    THEN "400 Valid numerical answer is required"
    ELSE IF question.questionType # "NUMERICAL" /\ num # Null
    THEN "400 Invalid answer type"
    ELSE "200 Answer saved"

\* saveAnswer, up to the validation of the request body, for a question of qids
SaveAnswerRequest(p, qids) ==
    /\ proc[p].pc = "idle"
    /\ \E u \in Users, qid \in qids, sel \in Selections, num \in Numbers :
        LET found == ActiveAttemptsOf(ExamId, u)
            checked == ValidateAnswer(QuestionById(qid), sel, num)
        IN  IF found = {} THEN Finish(p, 0, "403 Attempt not active")
            ELSE \E a \in found :
                 IF Clock > getHardEndTime(Exam, attempts[a])
                 THEN Goto(p, [Idle EXCEPT !.op = "auto", !.pc = "auto_save",
                                           !.att = a])
                 ELSE IF checked # "200 Answer saved"
                 THEN Finish(p, a, checked)
                 ELSE Goto(p, [Idle EXCEPT !.op = "saveAnswer", !.pc = "save_upsert",
                                           !.att = a,
                                           !.snap = Some([questionId |-> qid,
                                               answer |-> AnswerRow(sel, num, Null)])])
    /\ UNCHANGED <<now, attempts, answers, lock, jobs, writes, fnArgs, fnResult>>

\* saveAnswer for the first question of the paper
SaveAnswerCheck(p) == SaveAnswerRequest(p, {1})

\* saveAnswer for any question of the paper
SaveAnswerAny(p) == SaveAnswerRequest(p, QuestionIds)

\* the score worker reads the answer rows FOR UPDATE
AnswersLocked(a) ==
    \E q \in Procs : proc[q].pc = "worker_save" /\ proc[q].att = a

\* saveAnswer: StudentAnswer.upsert
SaveAnswerUpsert(p) ==
    /\ proc[p].pc = "save_upsert"
    /\ LET a == proc[p].att
           body == proc[p].snap[1].answer
           qid == proc[p].snap[1].questionId
       IN  /\ ~(qid \in DOMAIN answers[a] /\ AnswersLocked(a))
           /\ answers' = [answers EXCEPT ![a] =
                 IF qid \in DOMAIN @
                 THEN [@ EXCEPT ![qid].selectedOptionIds = body.selectedOptionIds,
                                ![qid].numericalAnswer = body.numericalAnswer]
                 ELSE @ @@ (qid :> body)]
           /\ Finish(p, a, "200 Answer saved")
    /\ UNCHANGED <<now, attempts, lock, jobs, writes, fnArgs, fnResult>>

\* ------------------------------------------------------------- submitExam
\* submitExam, up to the time check
SubmitExamCheck(p) ==
    /\ proc[p].pc = "idle"
    /\ \E u \in Users :
        LET found == ActiveAttemptsOf(ExamId, u)
        IN  IF found = {} THEN Finish(p, 0, "400 No active attempt")
            ELSE \E a \in found :
                 IF Clock > getHardEndTime(Exam, attempts[a])
                 THEN Goto(p, [Idle EXCEPT !.op = "auto", !.pc = "auto_save",
                                           !.att = a])
                 ELSE Goto(p, [Idle EXCEPT !.op = "submitExam", !.pc = "submit_lock",
                                           !.att = a])
    /\ UNCHANGED <<now, attempts, answers, lock, jobs, writes, fnArgs, fnResult>>

\* a submission that goes on whatever status the locked read returns
AlwaysInProgress(a) == TRUE

\* the idempotency check made under the row lock
StillInProgress(a) == attempts[a].status = "IN_PROGRESS"

\* submitExam: the locked re-fetch and the status check
SubmitExamLock(p) ==
    /\ proc[p].pc = "submit_lock"
    /\ LET a == proc[p].att
       IN  /\ LockFree(a)
           /\ IF ~StillInProgress(a)
              THEN Finish(p, a, "400 Exam already submitted") /\ UNCHANGED lock
              ELSE /\ lock' = [lock EXCEPT ![a] = p]
                   /\ Goto(p, [proc[p] EXCEPT !.pc = "submit_save"])
    /\ UNCHANGED <<now, attempts, answers, jobs, writes, fnArgs, fnResult>>

\* submitExam: the locked save, the commit, the start of the scoring and the
\* response
SubmitExamSave(p) ==
    /\ proc[p].pc = "submit_save"
    /\ LET a == proc[p].att
       IN  /\ WriteStatus(a, "SUBMITTED")
           /\ lock' = [lock EXCEPT ![a] = 0]
           /\ GotoReply(p, [proc[p] EXCEPT !.op = "background", !.pc = "calc",
                                           !.user = attempts[a].userId],
                        a, "200 Exam submitted")
    /\ UNCHANGED <<now, answers, jobs, fnArgs, fnResult>>

\* ------------------------------------------------------------ cron sweep
\* the cron callback: findAll IN_PROGRESS, now, and the overdue attempts
SweepScan(p) ==
    /\ proc[p].pc = "idle"
    /\ LET found == {a \in DOMAIN attempts : attempts[a].status = "IN_PROGRESS"}
           overdue == {a \in found : Clock > getHardEndTime(Exam, attempts[a])}
       IN  IF overdue = {} THEN Finish(p, 0, "")
           ELSE Goto(p, [Idle EXCEPT !.op = "sweep", !.pc = "sweep_save",
                                     !.todo = overdue])
    /\ UNCHANGED <<now, attempts, answers, lock, jobs, writes, fnArgs, fnResult>>

\* a sweep whose loop logs the overdue attempt but never saves it
SweepSaveSkipped(p) ==
    /\ proc[p].pc = "sweep_save"
    /\ \E a \in proc[p].todo :
        /\ LockFree(a)
        /\ Goto(p, [proc[p] EXCEPT !.pc = "calc", !.user = attempts[a].userId,
                                   !.att = a, !.todo = @ \ {a}])
    /\ UNCHANGED <<now, attempts, writes, answers, lock, jobs, fnArgs, fnResult>>

\* the cron callback: the save of one overdue attempt of the list
SweepSave(p) ==
    /\ proc[p].pc = "sweep_save"
    /\ \E a \in proc[p].todo :
        /\ LockFree(a)
        /\ WriteStatus(a, "AUTO_SUBMITTED")
        /\ Goto(p, [proc[p] EXCEPT !.pc = "calc", !.user = attempts[a].userId,
                                   !.att = a, !.todo = @ \ {a}])
    /\ UNCHANGED <<now, answers, lock, jobs, fnArgs, fnResult>>

\* the cron callback: attempt.save() of one overdue attempt throws; the
\* exception leaves the for loop and is logged by the callback's outer catch
SweepSaveFail(p) ==
    /\ proc[p].pc = "sweep_save"
    /\ \E a \in proc[p].todo : Finish(p, a, "Auto-submit cron error")
    /\ UNCHANGED <<now, attempts, answers, lock, jobs, writes, fnArgs, fnResult>>

\* ----------------------------------------------------- submission service
SubmitKinds == {"SUBMITTED", "AUTO_SUBMITTED"}
SubmitFns == {"submitAttemptAndQueueScore", "submitExamWithoutScore"}

\* submitAttempt / submitExamWithoutScore: the locked read and the check
SubmitAttemptLock(p) ==
    /\ proc[p].pc = "idle"
    /\ \E a \in DOMAIN attempts, kind \in SubmitKinds, fn \in SubmitFns :
        /\ LockFree(a)
        /\ IF ~StillInProgress(a)
           THEN /\ Finish(p, a, IF fn = "submitExamWithoutScore"
                                THEN "Error: Attempt already submitted"
                                ELSE "alreadySubmitted=true")
                /\ UNCHANGED lock
           ELSE /\ lock' = [lock EXCEPT ![a] = p]
                /\ Goto(p, [Idle EXCEPT !.op = fn, !.pc = "service_save", !.att = a,
                                        !.snap = Some(kind)])
    /\ UNCHANGED <<now, attempts, answers, jobs, writes, fnArgs, fnResult>>

\* submitAttempt: attempt.reload is issued with lock: UPDATE while another
\* transaction holds the row lock, at the clock reading kept in `since`; the
\* statement waits
SubmitAttemptWait(p) ==
    /\ proc[p].pc = "idle"
    /\ \E a \in DOMAIN attempts, kind \in SubmitKinds :
          /\ ~LockFree(a)
          /\ Goto(p, [Idle EXCEPT !.op = "submitAttemptAndQueueScore",
                                  !.pc = "service_lock", !.att = a,
                                  !.snap = Some(kind), !.since = now])
    /\ UNCHANGED <<now, attempts, answers, lock, jobs, writes, fnArgs, fnResult>>

\* submitAttempt: the reload returns once the row lock is free; the check
SubmitAttemptGranted(p) ==
    /\ proc[p].pc = "service_lock"
    /\ LET a == proc[p].att
       IN  /\ LockFree(a)
           /\ IF ~StillInProgress(a)
              THEN Finish(p, a, "alreadySubmitted=true") /\ UNCHANGED lock
              ELSE /\ lock' = [lock EXCEPT ![a] = p]
                   /\ Goto(p, [proc[p] EXCEPT !.pc = "service_save", !.since = 0])
    /\ UNCHANGED <<now, attempts, answers, jobs, writes, fnArgs, fnResult>>

\* a submission whose save also writes a score of zero
SubmitAttemptSaveWithScore(p) ==
    /\ proc[p].pc = "service_save"
    /\ LET a == proc[p].att
       IN  /\ attempts' = [attempts EXCEPT ![a].status = proc[p].snap[1],
                                           ![a].submittedAt = Some(Clock),
                                           ![a].score = Some(0)]
           /\ writes' = [writes EXCEPT ![a].status = @ + 1]
           /\ lock' = [lock EXCEPT ![a] = 0]
           /\ IF proc[p].op = "submitAttemptAndQueueScore"
              THEN Goto(p, [proc[p] EXCEPT !.pc = "enqueue", !.snap = Null])
              ELSE Finish(p, a, "alreadySubmitted=false")
    /\ UNCHANGED <<now, answers, jobs, fnArgs, fnResult>>

\* submitAttempt / submitExamWithoutScore: the save and the commit
SubmitAttemptSave(p) ==
    /\ proc[p].pc = "service_save"
    /\ LET a == proc[p].att
       IN  /\ WriteStatus(a, proc[p].snap[1])
           /\ lock' = [lock EXCEPT ![a] = 0]
           /\ IF proc[p].op = "submitAttemptAndQueueScore"
              THEN Goto(p, [proc[p] EXCEPT !.pc = "enqueue", !.snap = Null])
              ELSE Finish(p, a, "alreadySubmitted=false")
    /\ UNCHANGED <<now, answers, jobs, fnArgs, fnResult>>

\* the number of tries of a job added without the `attempts` option (the
\* options of queue.add carry none; the library's default is a single try)
JobAttempts == 1

\* the number of jobs the worker processes at the same time
Concurrency == 3

\* queue.add("calculate-score", { attemptId }, ...)
NewJob(a) == [attemptId |-> a, state |-> "waiting", attemptsMade |-> 0]

\* submitAttemptAndQueueScore: addScoreCalculationJob succeeded
EnqueueScoreJob(p) ==
    /\ proc[p].pc = "enqueue"
    /\ Len(jobs) < MaxJobs
    /\ jobs' = Append(jobs, NewJob(proc[p].att))
    /\ Finish(p, proc[p].att, "alreadySubmitted=false")
    /\ UNCHANGED <<now, attempts, answers, lock, writes, fnArgs, fnResult>>

\* an enqueue made inside the submission transaction: its failure rolls the
\* status write back
EnqueueFailRollback(p) ==
    /\ proc[p].pc = "enqueue"
    /\ attempts' = [attempts EXCEPT ![proc[p].att].status = "IN_PROGRESS",
                                    ![proc[p].att].submittedAt = Null]
    /\ Finish(p, proc[p].att, "Error: enqueue failed")
    /\ UNCHANGED <<now, answers, lock, jobs, writes, fnArgs, fnResult>>

\* submitAttemptAndQueueScore: addScoreCalculationJob threw (queue not
\* initialised, or the queue's store unreachable)
EnqueueFail(p) ==
    /\ proc[p].pc = "enqueue"
    /\ Finish(p, proc[p].att, "Error: enqueue failed")
    /\ UNCHANGED <<now, attempts, answers, lock, jobs, writes, fnArgs, fnResult>>

\* ------------------------------------------------------------ score worker
\* addScoreCalculationJob(attemptId) called with any attempt id
AddScoreCalculationJob ==
    /\ Len(jobs) < MaxJobs
    /\ \E a \in AttemptIds : jobs' = Append(jobs, NewJob(a))
    /\ UNCHANGED <<now, attempts, answers, lock, proc, writes, reply, fnArgs, fnResult>>

\* a worker that serves the queue strictly in order: a job is taken only
\* when every job before it has completed
EligibleInOrder(j) ==
    /\ jobs[j].state = "waiting"
    /\ \A i \in 1..(j - 1) : jobs[i].state = "completed"

\* the jobs a free slot of the worker may take
Eligible(j) == jobs[j].state = "waiting"

\* the processor returned: the job is completed
MoveToCompleted(j) ==
    [jobs EXCEPT ![j].state = "completed", ![j].attemptsMade = @ + 1]

\* a retry policy read from the worker's settings (attempts: 3)
ShouldRetryPerSettings(j) == jobs[j].attemptsMade + 1 < 3

\* the queue retries a failed job while it has tries left
ShouldRetry(j) == jobs[j].attemptsMade + 1 < JobAttempts

\* the processor threw: the job is retried or failed
MoveToFailed(j) ==
    [jobs EXCEPT ![j].state = IF ShouldRetry(j) THEN "waiting" ELSE "failed",
                 ![j].attemptsMade = @ + 1]

\* the worker's processor: the locked fetch, the checks, the answers
WorkerLock(p) ==
    /\ proc[p].pc = "idle"
    /\ Cardinality({q \in Procs : proc[q].op = "worker"}) < Concurrency
    /\ \E j \in 1..Len(jobs) :
        /\ Eligible(j)
        /\ LET a == jobs[j].attemptId
           IN  IF a \notin DOMAIN attempts
               THEN /\ jobs' = MoveToFailed(j)
                    /\ Finish(p, a, "Error: Attempt not found")
                    /\ UNCHANGED lock
               ELSE /\ LockFree(a)
                    /\ IF AlreadyCalculated(a)
                       THEN /\ jobs' = MoveToCompleted(j)
                            /\ Finish(p, a, "job alreadyCalculated")
                            /\ UNCHANGED lock
                       ELSE /\ jobs' = [jobs EXCEPT ![j].state = "active"]
                            /\ lock' = [lock EXCEPT ![a] = p]
                            /\ Goto(p, [Idle EXCEPT !.op = "worker", !.pc = "worker_save",
                                                    !.att = a, !.job = j,
                                                    !.snap = Some(answers[a])])
    /\ UNCHANGED <<now, attempts, answers, writes, fnArgs, fnResult>>

\* the worker's processor: the score, the save and the commit
WorkerSave(p) ==
    /\ proc[p].pc = "worker_save"
    /\ LET a == proc[p].att
           rows == proc[p].snap[1]
       IN  /\ answers' = [answers EXCEPT ![a] = WorkerMarkedRows(rows, @)]
           /\ attempts' = [attempts EXCEPT ![a].score =
                             Some(WorkerTotal(rows, DOMAIN rows))]
           /\ writes' = [writes EXCEPT ![a].score = @ + 1]
           /\ lock' = [lock EXCEPT ![a] = 0]
           /\ Finish(p, a, "job completed")
    /\ jobs' = MoveToCompleted(proc[p].job)
    /\ UNCHANGED <<now, fnArgs, fnResult>>

\* a scorer that saves each answer row outside the worker's transaction: the
\* rollback keeps the marks
WorkerFailKeepsMarks(p) ==
    /\ proc[p].pc = "worker_save"
    /\ answers' = [answers EXCEPT ![proc[p].att] =
                     WorkerMarkedRows(proc[p].snap[1], @)]
    /\ lock' = [lock EXCEPT ![proc[p].att] = 0]
    /\ jobs' = MoveToFailed(proc[p].job)
    /\ Finish(p, proc[p].att, "job failed")
    /\ UNCHANGED <<now, attempts, writes, fnArgs, fnResult>>

\* the worker's processor: an error in the transaction; rollback and rethrow
WorkerFail(p) ==
    /\ proc[p].pc = "worker_save"
    /\ lock' = [lock EXCEPT ![proc[p].att] = 0]
    /\ jobs' = MoveToFailed(proc[p].job)
    /\ Finish(p, proc[p].att, "job failed")
    /\ UNCHANGED <<now, attempts, answers, writes, fnArgs, fnResult>>

\* ---------------------------------------------------------- specifications
Next ==
    \/ Tick
    \/ \E p \in Procs : GetExamForAttempt(p)
    \/ \E p \in Procs : SubmitExamCheck(p)
    \/ \E p \in Procs : SubmitExamLock(p)
    \/ \E p \in Procs : SubmitExamSave(p)
    \/ \E p \in Procs : AutoSubmitSave(p)
    \/ \E p \in Procs : SweepScan(p)
    \/ \E p \in Procs : SweepSave(p)
    \/ \E p \in Procs : CalcLock(p)
    \/ \E p \in Procs : CalcSave(p)
    \/ \E p \in Procs : CalcFail(p)
    \/ \E p \in Procs : Recalc(p)

\* the exam under way: the request handlers, the cron sweep and
\* calculateExamScore
Spec == Init /\ [][Next]_vars

NextService ==
    \/ Tick
    \/ \E p \in Procs : SweepScan(p)
    \/ \E p \in Procs : SweepSave(p)
    \/ \E p \in Procs : CalcLock(p)
    \/ \E p \in Procs : CalcSave(p)
    \/ \E p \in Procs : CalcFail(p)
    \/ \E p \in Procs : SubmitAttemptLock(p)
    \/ \E p \in Procs : SubmitAttemptSave(p)
    \/ \E p \in Procs : EnqueueScoreJob(p)
    \/ \E p \in Procs : EnqueueFail(p)
    \/ \E p \in Procs : WorkerLock(p)
    \/ \E p \in Procs : WorkerSave(p)
    \/ \E p \in Procs : WorkerFail(p)
    \/ \E p \in Procs : Recalc(p)
    \/ \E p \in Procs : SubmitExamCheck(p)
    \/ \E p \in Procs : SubmitExamLock(p)
    \/ \E p \in Procs : SubmitExamSave(p)
    \/ \E p \in Procs : AutoSubmitSave(p)

\* the exam under way: the submission service, the score queue and worker,
\* and the cron sweep
SpecService == Init /\ [][NextService]_vars

NextAnswer ==
    \/ Tick
    \/ \E p \in Procs : SaveAnswerCheck(p)
    \/ \E p \in Procs : SaveAnswerUpsert(p)
    \/ \E p \in Procs : SubmitExamCheck(p)
    \/ \E p \in Procs : SubmitExamLock(p)
    \/ \E p \in Procs : SubmitExamSave(p)
    \/ \E p \in Procs : AutoSubmitSave(p)
    \/ \E p \in Procs : CalcLock(p)
    \/ \E p \in Procs : CalcSave(p)
    \/ \E p \in Procs : CalcFail(p)

\* the exam under way: saving answers against submission and scoring
SpecAnswer == Init /\ [][NextAnswer]_vars

NextStart ==
    \/ Tick
    \/ \E p \in Procs : StartExamCheck(p)
    \/ \E p \in Procs : StartExamCreate(p)

\* students starting the exam
SpecStart == InitStart /\ [][NextStart]_vars
NextSweep ==
    \/ Tick
    \/ \E p \in Procs : SweepScan(p)
    \/ \E p \in Procs : SweepSave(p)
    \/ \E p \in Procs : SweepSaveFail(p)
    \/ \E p \in Procs : CalcLock(p)
    \/ \E p \in Procs : CalcSave(p)
    \/ \E p \in Procs : CalcFail(p)

\* the exam under way with no student acting: overlapping cron sweeps
SpecSweep == Init /\ [][NextSweep]_vars

\* the cron fires every minute and every await of a callback returns; a save
\* that can succeed infinitely often does succeed
SweepFairness ==
    \A p \in Procs :
        /\ WF_vars(SweepScan(p))
        /\ SF_vars(SweepSave(p))
        /\ WF_vars(CalcLock(p))
        /\ WF_vars(CalcSave(p) \/ CalcFail(p))

\* overlapping cron sweeps under fair scheduling
SpecSweepFair == Init /\ [][NextSweep]_vars /\ SweepFairness

\* the database when student 1 is still writing, has saved nothing yet, and
\* every other student has submitted
InitShape ==
    /\ now = 2
    /\ attempts = [u \in Users |->
                     IF u = 1 THEN NewAttempt(ExamId, u, Instant(0))
                     ELSE [NewAttempt(ExamId, u, Instant(0)) EXCEPT
                             !.status = "SUBMITTED", !.submittedAt = Some(Instant(1))]]
    /\ answers = [u \in Users |-> <<>>]
    /\ lock = [u \in Users |-> 0]
    /\ proc = [p \in Procs |-> Idle]
    /\ jobs = <<>>
    /\ writes = [u \in Users |-> [status |-> IF u = 1 THEN 0 ELSE 1, score |-> 0]]
    /\ reply = NoReply
    /\ fnArgs = <<>>
    /\ fnResult = <<>>

NextShape ==
    \/ \E p \in Procs : SaveAnswerAny(p)
    \/ \E p \in Procs : SaveAnswerUpsert(p)

\* a student saving answers to the questions of the paper
SpecShape == InitShape /\ [][NextShape]_vars

NextLock ==
    \/ Tick
    \/ \E p \in Procs : SubmitAttemptLock(p)
    \/ \E p \in Procs : SubmitAttemptWait(p)
    \/ \E p \in Procs : SubmitAttemptGranted(p)
    \/ \E p \in Procs : SubmitAttemptSave(p)
    \/ \E p \in Procs : EnqueueScoreJob(p)
    \/ \E p \in Procs : EnqueueFail(p)
    \/ \E p \in Procs : WorkerLock(p)
    \/ \E p \in Procs : WorkerSave(p)
    \/ \E p \in Procs : WorkerFail(p)

\* the exam under way: submissions and score jobs waiting for the row lock
SpecLock == Init /\ [][NextLock]_vars

\* ------------------------------------------------------------ result API
\* a read API that reports every score as calculated
ScoreNeverPending(a) == FALSE

\* getMyScore / getMyResult: attempt.score === null
ScorePending(a) == attempts[a].score = Null

\* getMyScore / getMyResult: the status line of the response for attempt a
ResultStatus(a) ==
    IF attempts[a].status = "IN_PROGRESS" THEN "400 Exam not yet submitted"
    ELSE IF Clock < Exam.endTime
    THEN "403 Results will be available after exam ends"
    ELSE IF ScorePending(a) THEN "202 Score calculation in progress"
    ELSE "200 result"

\* the responses of the score read API
ResultResponses ==
    {"400 Exam not yet submitted", "403 Results will be available after exam ends",
     "202 Score calculation in progress", "200 result"}

\* getMyScore / getMyResult of student u: the response, and the score field
\* of its body (absent unless the status is 200)
ReadResult(p, u) ==
    /\ proc[p].pc = "idle"
    /\ LET found == AttemptsOf(ExamId, u)
       IN  IF found = {}
           THEN Finish(p, 0, "404 No attempt found") /\ fnResult' = Null
           ELSE \E a \in found :
                /\ Finish(p, a, ResultStatus(a))
                /\ fnResult' = IF ResultStatus(a) = "200 result"
                               THEN attempts[a].score ELSE Null
    /\ UNCHANGED <<now, attempts, answers, lock, jobs, writes, fnArgs>>

\* GET /:examId/score
GetMyScore(p) == \E u \in Users : ReadResult(p, u)

\* GET /:examId
GetMyResult(p) == \E u \in Users : ReadResult(p, u)

\* the database near the end of the exam: student 1 has submitted and has
\* answered, every other student is still writing; no attempt is scored
InitResult ==
    /\ now = 2
    /\ attempts = [u \in Users |->
                     IF u = 1
                     THEN [NewAttempt(ExamId, u, Instant(0)) EXCEPT
                             !.status = "SUBMITTED", !.submittedAt = Some(Instant(1))]
                     ELSE NewAttempt(ExamId, u, Instant(1))]
    /\ answers = [u \in Users |->
                     IF u = 1 THEN (1 :> AnswerRow(Some(<<1>>), Null, Null)) ELSE <<>>]
    /\ lock = [u \in Users |-> 0]
    /\ proc = [p \in Procs |-> Idle]
    /\ jobs = <<>>
    /\ writes = [u \in Users |-> [status |-> IF u = 1 THEN 1 ELSE 0, score |-> 0]]
    /\ reply = NoReply
    /\ fnArgs = <<>>
    /\ fnResult = <<>>

NextResult ==
    \/ Tick
    \/ \E p \in Procs : GetMyScore(p)
    \/ \E p \in Procs : GetMyResult(p)
    \/ \E p \in Procs : Recalc(p)
    \/ \E p \in Procs : CalcSave(p)
    \/ \E p \in Procs : CalcFail(p)
    \/ \E p \in Procs : SweepScan(p)
    \/ \E p \in Procs : SweepSave(p)
    \/ \E p \in Procs : CalcLock(p)

\* students reading their score while attempts are closed and scored
SpecResult == InitResult /\ [][NextResult]_vars

\* absent permanent faults: a scoring that is tried again and again does not
\* fail every time
NoPermanentFault == \A p \in Procs : SF_vars(CalcSave(p))

\* overlapping cron sweeps under fair scheduling and absent permanent faults
SpecSweepScoreFair ==
    Init /\ [][NextSweep]_vars /\ SweepFairness /\ NoPermanentFault

\* ----------------------------------------------------------- score queue
\* the database after the exam: every attempt is submitted and none is scored;
\* student 1 submitted by hand and has answered, the others were auto-submitted
InitQueue ==
    /\ now = MaxTime
    /\ attempts = [u \in Users |->
                     [NewAttempt(ExamId, u, Instant(0)) EXCEPT
                        !.status = IF u = 1 THEN "SUBMITTED" ELSE "AUTO_SUBMITTED",
                        !.submittedAt = Some(Instant(2))]]
    /\ answers = [u \in Users |->
                     IF u = 1 THEN (1 :> AnswerRow(Some(<<1>>), Null, Null)) ELSE <<>>]
    /\ lock = [u \in Users |-> 0]
    /\ proc = [p \in Procs |-> Idle]
    /\ jobs = <<>>
    /\ writes = [u \in Users |-> [status |-> 1, score |-> 0]]
    /\ reply = NoReply
    /\ fnArgs = <<>>
    /\ fnResult = <<>>

NextQueue ==
    \/ AddScoreCalculationJob
    \/ \E p \in Procs : WorkerLock(p)
    \/ \E p \in Procs : WorkerSave(p)
    \/ \E p \in Procs : WorkerFail(p)
    \/ \E p \in Procs : Recalc(p)
    \/ \E p \in Procs : CalcSave(p)
    \/ \E p \in Procs : CalcFail(p)

\* after the exam: the score queue and its worker, and score requests
SpecQueue == InitQueue /\ [][NextQueue]_vars

\* a free slot of the worker takes a waiting job, a row lock that keeps being
\* released is obtained, and every await of a transaction returns
QueueFairness ==
    \A p \in Procs :
        /\ SF_vars(WorkerLock(p))
        /\ WF_vars(WorkerSave(p) \/ WorkerFail(p))
        /\ WF_vars(CalcSave(p) \/ CalcFail(p))

\* the score queue and its worker under fair scheduling
SpecQueueFair == InitQueue /\ [][NextQueue]_vars /\ QueueFairness

\* ------------------------------------------------ getHardEndTime harness
EndTimes == {k * 30 * 60 * 1000 : k \in 0..MaxIn}
StartTimes == {k * 10 * 60 * 1000 : k \in 0..MaxIn}
Durations == {k * 30 : k \in 1..MaxIn}

\* an exam and an attempt drawn from the input sets, nothing computed yet
InitTime ==
    /\ now = 0
    /\ attempts = <<>>
    /\ answers = <<>>
    /\ lock = <<>>
    /\ proc = [p \in Procs |-> Idle]
    /\ jobs = <<>>
    /\ writes = <<>>
    /\ reply = NoReply
    /\ fnArgs \in [endTime : EndTimes, startedAt : StartTimes,
                    durationMinutes : Durations]
    /\ fnResult = Null

\* one call of getHardEndTime(exam, attempt)
ComputeHardEnd ==
    /\ fnResult = Null
    /\ fnResult' = Some(getHardEndTime(
                      [endTime |-> fnArgs.endTime,
                       durationMinutes |-> fnArgs.durationMinutes],
                      [startedAt |-> fnArgs.startedAt]))
    /\ UNCHANGED <<now, attempts, answers, lock, proc, jobs, writes, reply, fnArgs>>

NextTime == ComputeHardEnd

\* getHardEndTime applied to every exam and attempt of the input sets
SpecTime == InitTime /\ [][NextTime]_vars

\* ---------------------------------------------------- scoring harness
\* what a student can have stored for each question: no answer row, or the
\* row a saveAnswer request leaves
SingleChoices ==
    {Null} \cup {Some(AnswerRow(sel, Null, Null)) :
                    sel \in {Null, Some(<<>>), Some(<<1>>), Some(<<2>>)}}
MultipleChoices ==
    {Null} \cup {Some(AnswerRow(Some(sel), Null, Null)) :
                    sel \in {<<>>, <<1, 2>>, <<2, 1>>, <<1>>, <<1, 1>>, <<1, 3>>,
                             <<1, 2, 3>>}}
NumericalChoices ==
    {Null} \cup {Some(AnswerRow(Null, Some(n), Null)) : n \in {7, 8, 10, 12, 13}}

ChoicesFor(qid) ==
    IF QuestionById(qid).questionType = "SINGLE_CORRECT" THEN SingleChoices
    ELSE IF QuestionById(qid).questionType = "MULTIPLE_CORRECT" THEN MultipleChoices
    ELSE NumericalChoices

\* the answer rows of one attempt
AnswerSheets ==
    {sheet \in [QuestionIds -> SingleChoices \cup MultipleChoices \cup NumericalChoices] :
        \A qid \in QuestionIds : sheet[qid] \in ChoicesFor(qid)}

\* StudentAnswer.findAll({ where: { examAttemptId } }) of that attempt
RowsOf(sheet) ==
    [qid \in {q \in QuestionIds : sheet[q] # Null} |-> sheet[qid][1]]

\* a submitted attempt with its answers, not scored yet
InitScore ==
    /\ now = 0
    /\ attempts = <<>>
    /\ answers = <<>>
    /\ lock = <<>>
    /\ proc = [p \in Procs |-> Idle]
    /\ jobs = <<>>
    /\ writes = <<>>
    /\ reply = NoReply
    /\ fnArgs \in AnswerSheets
    /\ fnResult = Null

\* one run of the scoring of calculateExamScore(examId, userId) and of
\* calculateExamScore(answers) on the answer rows
ComputeScore ==
    /\ fnResult = Null
    /\ LET rows == RowsOf(fnArgs)
       IN  fnResult' = Some(
             [marks |-> [qid \in QuestionIds |->
                           MarksForQuestion(
                             ExamQuestions[CHOOSE i \in 1..Len(ExamQuestions) :
                                             ExamQuestions[i].question.id = qid],
                             AnswerFor(rows, qid))],
              total |-> TotalScore(ExamQuestions, rows),
              workerMarks |-> [qid \in DOMAIN rows |->
                                 WorkerMarks(QuestionById(qid), rows[qid])],
              workerTotal |-> WorkerTotal(rows, DOMAIN rows)])
    /\ UNCHANGED <<now, attempts, answers, lock, proc, jobs, writes, reply, fnArgs>>

NextScore == ComputeScore

\* the scoring rules applied to every answer sheet of the input sets
SpecScore == InitScore /\ [][NextScore]_vars

\* ------------------------------------------- calculateExamScore(answers)
\* the rows a second run of the scorer can find for a question: none, a row
\* not marked yet (right or wrong), or a row that already carries marks
RescoreChoices(qid) ==
    LET right == IF QuestionById(qid).questionType = "NUMERICAL"
                 THEN AnswerRow(Null, Some(10), Null)
                 ELSE [AnswerRow(Some(<<1>>), Null, Null) EXCEPT
                         !.selectedOptionId = Some(1)]
        wrong == IF QuestionById(qid).questionType = "NUMERICAL"
                 THEN AnswerRow(Null, Some(13), Null)
                 ELSE [AnswerRow(Some(<<3>>), Null, Null) EXCEPT
                         !.selectedOptionId = Some(3)]
    IN  {Null, Some(right), Some(wrong), Some([right EXCEPT !.marksObtained = Some(5)])}

RescoreSheets ==
    {sheet \in [QuestionIds -> UNION {RescoreChoices(q) : q \in QuestionIds}] :
        \A qid \in QuestionIds : sheet[qid] \in RescoreChoices(qid)}

\* calculateExamScore(answers): the rows on which ans.save() is called
WorkerSaved(rows) == DOMAIN rows

\* the answers of an attempt as the worker reads them, some marked already
InitRescore ==
    /\ now = 0
    /\ attempts = <<>>
    /\ answers = <<>>
    /\ lock = <<>>
    /\ proc = [p \in Procs |-> Idle]
    /\ jobs = <<>>
    /\ writes = <<>>
    /\ reply = NoReply
    /\ fnArgs \in RescoreSheets
    /\ fnResult = Null

\* one call of calculateExamScore(answers)
RescoreAnswers ==
    /\ fnResult = Null
    /\ LET rows == RowsOf(fnArgs)
       IN  fnResult' = Some([rows |-> WorkerMarkedRows(rows, rows),
                             saved |-> WorkerSaved(rows),
                             total |-> WorkerTotal(rows, DOMAIN rows)])
    /\ UNCHANGED <<now, attempts, answers, lock, proc, jobs, writes, reply, fnArgs>>

NextRescore == RescoreAnswers

\* calculateExamScore(answers) applied to rows of which some carry marks
SpecRescore == InitRescore /\ [][NextRescore]_vars

\* ---------------------------------------------------- score queue lifecycle
\* The module-level state of scoreCalculationQueue.service.js and of the Redis
\* client module is kept in the two harness variables: fnArgs is the Redis
\* module's isInitialized flag; fnResult is the record of scoreQueue,
\* scoreWorker and isInitialized, with the numbers of Queue and Worker objects
\* constructed so far (an object is named by its number).
MaxQueues == 3

isRedisInitialized == fnArgs
scoreQueue == fnResult.scoreQueue
scoreWorker == fnResult.scoreWorker
isInitialized == fnResult.isInitialized

\* the process at start-up: nothing initialised, the queue's store empty
InitLifecycle ==
    /\ now = MaxTime
    /\ attempts = [u \in Users |->
                     [NewAttempt(ExamId, u, Instant(0)) EXCEPT
                        !.status = "SUBMITTED", !.submittedAt = Some(Instant(2))]]
    /\ answers = [u \in Users |-> <<>>]
    /\ lock = [u \in Users |-> 0]
    /\ proc = [p \in Procs |-> Idle]
    /\ jobs = <<>>
    /\ writes = [u \in Users |-> [status |-> 1, score |-> 0]]
    /\ reply = NoReply
    /\ fnArgs = FALSE
    /\ fnResult = [scoreQueue |-> Null, scoreWorker |-> Null,
                   isInitialized |-> FALSE, queues |-> 0, workers |-> 0]

\* initializeRedis: connects unless already initialised
InitializeRedis ==
    /\ fnArgs' = TRUE
    /\ reply' = [att |-> 0, res |-> "Redis client ready"]
    /\ UNCHANGED <<now, attempts, answers, lock, proc, jobs, writes, fnResult>>

\* closeRedis
CloseRedis ==
    /\ fnArgs' = FALSE
    /\ reply' = [att |-> 0, res |-> "Redis connection closed"]
    /\ UNCHANGED <<now, attempts, answers, lock, proc, jobs, writes, fnResult>>

\* initializeScoreQueue
InitializeScoreQueue ==
    /\ IF isInitialized
       THEN /\ reply' = [att |-> 0, res |-> "existing queue and worker"]
            /\ UNCHANGED fnResult
       ELSE IF ~isRedisInitialized
       THEN /\ reply' = [att |-> 0, res |->
                 "Error: Redis must be initialized before score calculation queue"]
            /\ UNCHANGED fnResult
       ELSE /\ fnResult.queues < MaxQueues
            /\ fnResult' = [scoreQueue |-> Some(fnResult.queues + 1),
                            scoreWorker |-> Some(fnResult.workers + 1),
                            isInitialized |-> TRUE,
                            queues |-> fnResult.queues + 1,
                            workers |-> fnResult.workers + 1]
            /\ reply' = [att |-> 0, res |-> "queue and worker initialized"]
    /\ UNCHANGED <<now, attempts, answers, lock, proc, jobs, writes, fnArgs>>

\* addScoreCalculationJob(attemptId): getScoreQueue throws without a queue;
\* queue.add rejects when the store's connection is closed; the catch rethrows
AddScoreCalculationJobOrThrow ==
    /\ \E a \in AttemptIds :
         IF scoreQueue = Null
         THEN /\ reply' = [att |-> a, res |->
                   "Error: Score queue not initialized. Call initializeScoreQueue first."]
              /\ UNCHANGED jobs
         ELSE IF ~isRedisInitialized
         THEN /\ reply' = [att |-> a, res |-> "Error: queue.add failed"]
              /\ UNCHANGED jobs
         ELSE /\ Len(jobs) < MaxJobs
              /\ jobs' = Append(jobs, NewJob(a))
              /\ reply' = [att |-> a, res |-> "job added"]
    /\ UNCHANGED <<now, attempts, answers, lock, proc, writes, fnArgs, fnResult>>

\* a shutdown that clears the flag and keeps the queue object
CloseScoreQueueKeepsQueue ==
    /\ fnResult' = [fnResult EXCEPT !.scoreWorker = Null, !.isInitialized = FALSE]
    /\ reply' = [att |-> 0, res |-> "queue and worker closed"]
    /\ UNCHANGED <<now, attempts, answers, lock, proc, jobs, writes, fnArgs>>

\* closeScoreQueue
CloseScoreQueue ==
    /\ fnResult' = [fnResult EXCEPT !.scoreWorker = Null, !.scoreQueue = Null,
                                    !.isInitialized = FALSE]
    /\ reply' = [att |-> 0, res |-> "queue and worker closed"]
    /\ UNCHANGED <<now, attempts, answers, lock, proc, jobs, writes, fnArgs>>

NextLifecycle ==
    \/ InitializeRedis
    \/ CloseRedis
    \/ InitializeScoreQueue
    \/ AddScoreCalculationJobOrThrow
    \/ CloseScoreQueue

\* start-up, enqueueing and shutdown of the score queue in any order
SpecLifecycle == InitLifecycle /\ [][NextLifecycle]_vars

\* ------------------------------------------------------------ properties
\* C1: exactly-once transition: for every attempt and every interleaving of
\* manual submits, sweeper auto-submits and time-window auto-submits, at most
\* one caller performs the persisted status write of the attempt.
ExactlyOnceTransition ==
    \A a \in DOMAIN attempts : writes[a].status <= 1

\* C2: across every step the status of an attempt that has left IN_PROGRESS
\* stays what it is: it never moves between SUBMITTED and AUTO_SUBMITTED and
\* never returns to IN_PROGRESS.
StatusOnlyLeavesInProgress ==
    [][\A a \in DOMAIN attempts :
          attempts[a].status # "IN_PROGRESS"
              => attempts'[a].status = attempts[a].status]_vars

\* C3: in every reachable state, for every attempt, submittedAt is non-null
\* if and only if status is not IN_PROGRESS.
SubmittedAtIffTerminal ==
    \A a \in DOMAIN attempts :
        (attempts[a].submittedAt # Null) <=> (attempts[a].status # "IN_PROGRESS")

\* a submitted attempt carrying its submission time beside one still in progress
SubmittedAtWitness ==
    \E a, b \in DOMAIN attempts :
        /\ Terminal(a) /\ attempts[a].submittedAt # Null /\ writes[a].status > 0
        /\ attempts[b].status = "IN_PROGRESS" /\ attempts[b].submittedAt = Null

\* C4: the score of an attempt is written at most once and only when the
\* attempt is terminal: score # null implies SUBMITTED or AUTO_SUBMITTED, and
\* once the score is non-null no later step changes it.
ScoreOnceWhenTerminal ==
    /\ [](\A a \in DOMAIN attempts :
            /\ writes[a].score <= 1
            /\ (attempts[a].score # Null => Terminal(a)))
    /\ [][\A a \in DOMAIN attempts :
            attempts[a].score # Null
                => attempts'[a].score = attempts[a].score]_vars

\* a scored attempt for which a further scoring request was short-circuited
ScoreOnceWitness ==
    /\ reply.res \in {"200 alreadyCalculated", "job alreadyCalculated"}
    /\ attempts[reply.att].score # Null
    /\ writes[reply.att].score = 1

\* C5: at most one attempt exists per (exam, student), also when startExam
\* requests for the same student run concurrently, and a rejected start
\* request leaves the existing attempts as they are.
OneAttemptPerStudent ==
    /\ [](\A u \in Users : Cardinality(AttemptsOf(ExamId, u)) <= 1)
    /\ [][/\ \A a \in DOMAIN attempts :
                a \in DOMAIN attempts' /\ attempts'[a] = attempts[a]
          /\ reply'.res \in {"400 already attempted", "400 Exam already started"}
                => attempts' = attempts]_vars

\* the second of two concurrent start requests is rejected by the unique index
OneAttemptWitness ==
    /\ reply.res = "400 Exam already started"
    /\ \E u \in Users : Cardinality(AttemptsOf(ExamId, u)) = 1

\* C6: getHardEndTime(exam, attempt) is the lesser of exam.endTime and
\* startedAt + duration: it exceeds neither and equals one of the two.
HardEndIsMin ==
    fnResult # Null =>
        LET e == fnArgs.endTime
            d == fnArgs.startedAt + fnArgs.durationMinutes * 60 * 1000
        IN  /\ fnResult[1] <= e
            /\ fnResult[1] <= d
            /\ fnResult[1] \in {e, d}

\* exam window ending at minute 60, duration 90 minutes, start at minute 10:
\* the exam's end caps the deadline
HardEndWitness ==
    /\ fnArgs = [endTime |-> 3600000, startedAt |-> 600000, durationMinutes |-> 90]
    /\ fnResult = Some(3600000)

\* C7: a submit on an attempt that is not IN_PROGRESS is a signalled no-op:
\* it returns alreadySubmitted=true, leaves the attempt rows unchanged and
\* enqueues no score job.
SubmitTerminalIsNoOp ==
    [][reply'.res \in {"alreadySubmitted=true", "Error: Attempt already submitted",
                       "400 Exam already submitted"}
          => /\ reply'.res = "alreadySubmitted=true"
             /\ attempts' = attempts
             /\ jobs' = jobs]_vars

\* C8: the score job is enqueued only after the submission transaction has
\* committed, and a failing enqueue never rolls the transition back: the
\* attempt is still terminal with submittedAt set.
EnqueueAfterCommit ==
    /\ [](\A p \in Procs :
            proc[p].pc = "enqueue"
                => /\ Terminal(proc[p].att)
                   /\ attempts[proc[p].att].submittedAt # Null
                   /\ lock[proc[p].att] # p)
    /\ [][reply'.res = "Error: enqueue failed"
            => /\ attempts' = attempts
               /\ attempts'[reply'.att].status \in {"SUBMITTED", "AUTO_SUBMITTED"}
               /\ attempts'[reply'.att].submittedAt # Null]_vars

\* a submit whose enqueue failed, the attempt submitted all the same
EnqueueFailWitness ==
    /\ reply.res = "Error: enqueue failed"
    /\ Terminal(reply.att)
    /\ attempts[reply.att].submittedAt # Null
    /\ \A j \in 1..Len(jobs) : jobs[j].attemptId # reply.att

\* C9: scoring is ordered after submission: no score job exists and no
\* scoring computation is under way or completed for an attempt whose
\* committed status is IN_PROGRESS.
ScoringAfterSubmission ==
    /\ \A j \in 1..Len(jobs) :
          attempts[jobs[j].attemptId].status # "IN_PROGRESS"
    /\ \A p \in Procs :
          proc[p].pc \in {"calc_save", "worker_save"}
              => attempts[proc[p].att].status # "IN_PROGRESS"
    /\ \A a \in DOMAIN attempts :
          writes[a].score > 0 => attempts[a].status # "IN_PROGRESS"

\* two different submitted attempts being scored at the same time
ParallelScoringWitness ==
    \E p, q \in Procs :
        /\ proc[p].pc \in {"calc_save", "worker_save"}
        /\ proc[q].pc \in {"calc_save", "worker_save"}
        /\ proc[p].att # proc[q].att

\* C10: the sweep drives an overdue attempt to AUTO_SUBMITTED through the
\* locked, idempotency-checked submit: its write is made only on an attempt
\* that is still IN_PROGRESS, and attempts that are not overdue are unchanged.
SweepSubmitsThroughCoordinator ==
    [][\A p \in Procs :
          proc[p].pc = "sweep_save" /\ proc'[p] # proc[p]
              => /\ attempts[proc'[p].att].status = "IN_PROGRESS"
                 /\ \A a \in DOMAIN attempts :
                       a # proc'[p].att => attempts'[a] = attempts[a]]_vars

\* C11: sweep isolation: when the auto-submit of one overdue attempt raises
\* an exception, every other overdue attempt found by the same sweep is still
\* processed: a sweep ends with no other attempt of its list left IN_PROGRESS.
SweepIsolation ==
    [][\A p \in Procs :
          proc[p].op = "sweep" /\ proc'[p].op = "none"
              => \A a \in proc[p].todo \ {reply'.att} :
                    attempts'[a].status # "IN_PROGRESS"]_vars

\* C12: overlapping sweeps: once an attempt carries its submission time, no
\* later step writes its status again or overwrites submittedAt.
SweepOverlapIsNoOp ==
    [][\A a \in DOMAIN attempts :
          attempts[a].submittedAt # Null
              => /\ attempts'[a].submittedAt = attempts[a].submittedAt
                 /\ writes'[a].status = writes[a].status]_vars

GivenSelection(qid) ==
    IF fnArgs[qid] = Null THEN <<>> ELSE OrEmpty(fnArgs[qid][1].selectedOptionIds)
GivenNumber(qid) ==
    IF fnArgs[qid] = Null THEN Null ELSE fnArgs[qid][1].numericalAnswer
CorrectIds(qid) ==
    {o.id : o \in {x \in SeqToSet(QuestionById(qid).options) : x.isCorrect}}
QuestionsOfType(type) ==
    {qid \in QuestionIds : QuestionById(qid).questionType = type}
Unanswered(qid) ==
    IF QuestionById(qid).questionType = "NUMERICAL"
    THEN GivenNumber(qid) = Null
    ELSE Len(GivenSelection(qid)) = 0
AnsweredRight(qid) ==
    /\ ~Unanswered(qid)
    /\ IF QuestionById(qid).questionType = "NUMERICAL"
       THEN Abs(GivenNumber(qid)[1] - QuestionById(qid).numericalAnswer[1].value)
               <= QuestionById(qid).numericalAnswer[1].tolerance
       ELSE SeqToSet(GivenSelection(qid)) = CorrectIds(qid)

\* C14: SINGLE_CORRECT scoring: +marks when the single selected option is the
\* correct one, -negativeMarks when a single wrong option is selected, 0 when
\* nothing is selected.
SingleCorrectMarks ==
    fnResult # Null =>
        \A qid \in QuestionsOfType("SINGLE_CORRECT") :
            fnResult[1].marks[qid] =
                IF Unanswered(qid) THEN 0
                ELSE IF AnsweredRight(qid) THEN QuestionById(qid).marks
                ELSE -QuestionById(qid).negativeMarks

\* C15: MULTIPLE_CORRECT scoring: +marks exactly when the set of selected ids
\* equals the set of correct ids, 0 for every other selection, never negative.
MultipleCorrectMarks ==
    fnResult # Null =>
        \A qid \in QuestionsOfType("MULTIPLE_CORRECT") :
            /\ fnResult[1].marks[qid] >= 0
            /\ fnResult[1].marks[qid] =
                  IF SeqToSet(GivenSelection(qid)) = CorrectIds(qid)
                  THEN QuestionById(qid).marks ELSE 0

\* C16: NUMERICAL scoring: +marks when |answer - target| <= tolerance,
\* -negativeMarks when an answer was given outside the tolerance, 0 when no
\* numerical answer was given.
NumericalMarks ==
    fnResult # Null =>
        \A qid \in QuestionsOfType("NUMERICAL") :
            fnResult[1].marks[qid] =
                IF GivenNumber(qid) = Null THEN 0
                ELSE IF AnsweredRight(qid) THEN QuestionById(qid).marks
                ELSE -QuestionById(qid).negativeMarks

\* C17: negative marks apply only when an answer was submitted: a question
\* with no answer row, an empty selection or no numerical answer contributes
\* exactly 0 to the score, whichever scoring function computes it.
UnansweredScoresZero ==
    fnResult # Null =>
        \A qid \in QuestionIds :
            Unanswered(qid) =>
                /\ fnResult[1].marks[qid] = 0
                /\ qid \in DOMAIN fnResult[1].workerMarks
                      => fnResult[1].workerMarks[qid] = 0

\* C18: the total is the plain sum of the per-question marks, the negative
\* ones included, and is not clamped: an attempt with wrong answers and no
\* right one gets a negative total.
TotalIsPlainSum ==
    fnResult # Null =>
        /\ fnResult[1].total =
              fnResult[1].marks[1] + fnResult[1].marks[2] + fnResult[1].marks[3]
        /\ ( /\ \A qid \in QuestionIds : ~AnsweredRight(qid)
             /\ \E qid \in QuestionIds :
                   /\ QuestionById(qid).questionType # "MULTIPLE_CORRECT"
                   /\ ~Unanswered(qid) )
              => fnResult[1].total < 0

ScoringIsSerialised ==
    /\ \A p, q \in Procs :
          /\ p # q
          /\ proc[p].pc \in {"calc_save", "worker_save"}
          /\ proc[q].pc \in {"calc_save", "worker_save"}
          => proc[p].att # proc[q].att
    /\ \A p \in Procs :
          proc[p].pc \in {"calc_save", "worker_save"}
              => /\ lock[proc[p].att] = p
                 /\ attempts[proc[p].att].score = Null
    /\ \A a \in DOMAIN attempts :
          /\ writes[a].score <= 1
          /\ (writes[a].score = 1) <=> (attempts[a].score # Null)

\* one run scoring an attempt while another trigger for the same attempt waits
ConcurrentScoringWitness ==
    \E p, q \in Procs :
        /\ proc[p].pc \in {"calc_save", "worker_save"}
        /\ proc[q].pc = "calc"
        /\ proc[q].user = attempts[proc[p].att].userId

TransientFailureIsRetried ==
    /\ [](\A j \in 1..Len(jobs) : jobs[j].attemptsMade <= 3)
    /\ [][/\ Len(jobs') >= Len(jobs)
          /\ \A j \in 1..Len(jobs) :
                /\ jobs'[j].attemptId = jobs[j].attemptId
                /\ jobs[j].attemptId \in DOMAIN attempts
                   /\ jobs[j].state = "active"
                   /\ jobs'[j].state \notin {"active", "completed"}
                      => jobs'[j].state =
                            IF jobs'[j].attemptsMade < 3 THEN "waiting" ELSE "failed"]_vars

TerminalIsEventuallyScored ==
    \A a \in AttemptIds :
        (a \in DOMAIN attempts /\ Terminal(a))
            ~> (a \in DOMAIN attempts /\ attempts[a].score # Null)

\* C26: answers are immutable after submission: once an attempt is terminal no
\* step adds an answer row to it or changes the selection or the number of one
\* of its rows, also when the save passed its IN_PROGRESS check earlier.
AnswersFrozenOnceTerminal ==
    [][\A a \in DOMAIN attempts :
          Terminal(a)
              => /\ DOMAIN answers'[a] = DOMAIN answers[a]
                 /\ \A q \in DOMAIN answers[a] :
                       /\ answers'[a][q].selectedOptionIds
                             = answers[a][q].selectedOptionIds
                       /\ answers'[a][q].numericalAnswer
                             = answers[a][q].numericalAnswer]_vars

\* C27: every stored answer has exactly one of the two shapes, the one of its
\* question's type: a selection and no number for SINGLE_CORRECT and
\* MULTIPLE_CORRECT, a number and no selection for NUMERICAL.
AnswerShapeMatchesType ==
    \A a \in DOMAIN answers :
        \A q \in DOMAIN answers[a] :
            IF QuestionById(q).questionType = "NUMERICAL"
            THEN /\ answers[a][q].numericalAnswer # Null
                 /\ answers[a][q].selectedOptionIds = Null
            ELSE /\ answers[a][q].selectedOptionIds # Null
                 /\ answers[a][q].numericalAnswer = Null

\* C28 as stated: whenever the score read API answers for a terminal attempt
\* whose score is null, the answer is the pending state and carries no score.
NullScoreReadsPending ==
    /\ reply.res \in ResultResponses
    /\ Terminal(reply.att)
    /\ attempts[reply.att].score = Null
    => /\ reply.res = "202 Score calculation in progress"
       /\ fnResult = Null

\* C28: the score read API never reports a score for an attempt whose score is
\* null: for a terminal attempt without a score it answers 403 (results not
\* yet available) before the exam's end time and the pending state 202 from
\* then on, both without a score; a 200 carries the stored, non-null score.
NullScoreNeverReadsNumeric ==
    reply.res \in ResultResponses /\ Terminal(reply.att)
        => IF attempts[reply.att].score = Null
           THEN /\ fnResult = Null
                /\ reply.res = IF Clock < Exam.endTime
                               THEN "403 Results will be available after exam ends"
                               ELSE "202 Score calculation in progress"
           ELSE reply.res = "200 result"
                   => fnResult = attempts[reply.att].score /\ fnResult # Null

\* the read API has answered "pending" for a closed attempt without a score
PendingReadWitness ==
    /\ reply.res = "202 Score calculation in progress"
    /\ Terminal(reply.att)
    /\ attempts[reply.att].score = Null
    /\ \E a \in DOMAIN attempts : attempts[a].score # Null

\* C29: a submit request that found its attempt IN_PROGRESS always ends with
\* the 'submitted' confirmation and a terminal attempt, whatever else happens
\* to the attempt meanwhile.
SubmitAlwaysConfirmed ==
    [][\A p \in Procs :
          proc[p].op = "submitExam" /\ proc'[p].op # "submitExam"
              => /\ reply' = [att |-> proc[p].att, res |-> "200 Exam submitted"]
                 /\ attempts'[proc[p].att].status
                       \in {"SUBMITTED", "AUTO_SUBMITTED"}]_vars

\* the bounded wait for the row lock, in clock readings
LockWait == 1

\* C30: no operation waits for the attempt's row lock longer than the bounded
\* wait: a submission whose locked reload is still waiting for a lock that
\* another transaction holds has waited for at most LockWait clock readings
\* (after that it has ended with a CONTENTION error).
LockWaitIsBounded ==
    \A p \in Procs :
        proc[p].pc = "service_lock" /\ lock[proc[p].att] # 0
            => now - proc[p].since <= LockWait

\* the rows of the call that carried marks before it / that carried none
AlreadyMarked ==
    {q \in DOMAIN RowsOf(fnArgs) : RowsOf(fnArgs)[q].marksObtained # Null}

\* the marks a row carries (none: 0)
MarksOf(row) == IF row.marksObtained = Null THEN 0 ELSE row.marksObtained[1]

RECURSIVE SumOfMarks(_, _)
SumOfMarks(rows, todo) ==
    IF todo = {} THEN 0
    ELSE LET q == CHOOSE x \in todo : TRUE
         IN  MarksOf(rows[q]) + SumOfMarks(rows, todo \ {q})

\* C31: calculateExamScore(answers) skips answers that already carry marks:
\* such a row keeps its marksObtained, is not saved again, and the returned
\* total is the sum of the marks given to the other rows only.
SkipsAlreadyScored ==
    fnResult # Null
        => /\ \A q \in AlreadyMarked :
                /\ fnResult[1].rows[q].marksObtained = RowsOf(fnArgs)[q].marksObtained
                /\ q \notin fnResult[1].saved
           /\ fnResult[1].total =
                 SumOfMarks(fnResult[1].rows, DOMAIN RowsOf(fnArgs) \ AlreadyMarked)

\* the selections and numbers stored for every attempt stay as they are
AnswersKept ==
    \A a \in DOMAIN answers :
        /\ DOMAIN answers'[a] = DOMAIN answers[a]
        /\ \A q \in DOMAIN answers[a] :
              /\ answers'[a][q].selectedOptionIds = answers[a][q].selectedOptionIds
              /\ answers'[a][q].numericalAnswer = answers[a][q].numericalAnswer

NoEarlyAutoSubmit ==
    /\ [](\A a \in DOMAIN attempts :
            attempts[a].status = "AUTO_SUBMITTED"
                => attempts[a].submittedAt[1] > getHardEndTime(Exam, attempts[a]))
    /\ [][\A p \in Procs :
            proc[p].pc = "idle"
                => /\ proc'[p].op = "auto"
                      => Clock > getHardEndTime(Exam, attempts[proc'[p].att])
                   /\ proc'[p].op = "sweep"
                      => \A a \in proc'[p].todo :
                            Clock > getHardEndTime(Exam, attempts[a])]_vars

\* C34: no attempt is SUBMITTED with a submittedAt later than its
\* hardEndTime: a manual submit written after the deadline is recorded as
\* AUTO_SUBMITTED or rejected.
NoLateManualSubmit ==
    \A a \in DOMAIN attempts :
        attempts[a].status = "SUBMITTED"
            => attempts[a].submittedAt[1] <= getHardEndTime(Exam, attempts[a])

SubmissionStepOn(a) ==
    \/ attempts'[a].status # attempts[a].status
    \/ attempts'[a].submittedAt # attempts[a].submittedAt

\* the score of attempt a, or the marks of one of its answers, changes
ScoringStepOn(a) ==
    \/ attempts'[a].score # attempts[a].score
    \/ \E q \in DOMAIN answers[a] \cap DOMAIN answers'[a] :
          answers'[a][q].marksObtained # answers[a][q].marksObtained

\* C36: frame conditions of the two writers: a step that submits attempt a
\* changes only status and submittedAt of a (no score, no answer, no other
\* attempt); a step that scores attempt a changes only its score and the
\* marksObtained of its answers (no status, no submittedAt, no selection or
\* number, no row added or removed, no other attempt or its answers).
WritersKeepTheirFrame ==
    [][\A a \in DOMAIN attempts :
          /\ SubmissionStepOn(a) =>
                /\ attempts' = [attempts EXCEPT
                                  ![a].status = attempts'[a].status,
                                  ![a].submittedAt = attempts'[a].submittedAt]
                /\ answers' = answers
          /\ ScoringStepOn(a) =>
                /\ attempts' = [attempts EXCEPT ![a].score = attempts'[a].score]
                /\ AnswersKept
                /\ \A b \in DOMAIN answers \ {a} : answers'[b] = answers[b]]_vars

\* both writers have acted on attempt 1 (submitted by the service, scored
\* with marks on its answer) while attempt 2 is as it started
BothWritersActedWitness ==
    /\ attempts[1].status = "SUBMITTED" /\ attempts[1].score # Null
    /\ \E q \in DOMAIN answers[1] : answers[1][q].marksObtained # Null
    /\ writes[1].status = 1 /\ writes[1].score = 1
    /\ attempts[2].status = "IN_PROGRESS" /\ attempts[2].score = Null

\* the score jobs added for attempt a, in any state
JobsFor(a) == {j \in 1..Len(jobs) : jobs[j].attemptId = a}

\* C37: over every interleaving of submitAttemptAndQueueScore calls, at most
\* one score job is added per attempt; a job is added only by the caller that
\* wrote the transition of that attempt (it is the one past its save), and a
\* call that ends with alreadySubmitted=true adds none.
OneJobPerTransition ==
    [][/\ \A a \in DOMAIN attempts : Cardinality(JobsFor(a))' <= 1
       /\ Len(jobs') > Len(jobs) =>
             \E p \in Procs :
                /\ proc[p].op = "submitAttemptAndQueueScore"
                /\ proc[p].pc = "enqueue"
                /\ jobs' = Append(jobs, NewJob(proc[p].att))
                /\ writes[proc[p].att].status >= 1
                /\ proc'[p] = Idle
       /\ reply'.res = "alreadySubmitted=true" => jobs' = jobs]_vars

\* a second submitAttemptAndQueueScore call for an attempt that has its job
\* ended with alreadySubmitted=true, and the attempt still has the one job
SecondCallerWitness ==
    /\ reply.res = "alreadySubmitted=true"
    /\ reply.att # 0
    /\ Cardinality(JobsFor(reply.att)) = 1
    /\ \A p \in Procs : proc[p].pc = "idle"

\* the exam's entry for question qid
ExamQuestionOf(qid) ==
    ExamQuestions[CHOOSE i \in 1..Len(ExamQuestions) :
                    ExamQuestions[i].question.id = qid]

\* C38: saveAnswer replaces the stored answer of (attempt, question), so an
\* attempt holds one answer per question (answers[a] has one row per question
\* id) and scoring evaluates the last saved answer: once an attempt has its
\* score, every stored answer carries the marks of what it now holds.
ScoredAnswerIsLastSaved ==
    \A a \in DOMAIN attempts :
        attempts[a].score # Null =>
            \A q \in DOMAIN answers[a] :
                answers[a][q].marksObtained =
                    Some(MarksForQuestion(ExamQuestionOf(q), Some(answers[a][q])))

\* the step is a call of initializeScoreQueue / of addScoreCalculationJob
InitializeCall ==
    reply'.res \in {"existing queue and worker", "queue and worker initialized",
                    "Error: Redis must be initialized before score calculation queue"}
AddJobCall ==
    reply'.res \in {"job added", "Error: queue.add failed",
                    "Error: Score queue not initialized. Call initializeScoreQueue first."}

====
